---- MODULE Spec2Model ----
(***************************************************************************)
(* Model of NinjaRipper2-OBJ.py: the NR2ObjConverter class (container      *)
(* reader and geometry decoder) and the process_file driver.               *)
(*                                                                         *)
(* A file is a sequence of bytes (0..255).  Offsets are 0-based as in the  *)
(* Python source; sequences are 1-based, so byte `off` is d[off + 1].      *)
(* A 32-bit float is identified with its IEEE-754 bit pattern, i.e. the    *)
(* four little-endian bytes it is unpacked from.                           *)
(***************************************************************************)
EXTENDS Integers, Sequences, FiniteSets, TLC

VARIABLES
    data,        \* bytes of the .nr file being processed (read_nr_file: data)
    chunks,      \* self.chunks: list of (tag, idx, pos, size, data)
    origin,      \* history: for each element of chunks, the attempt that appended it
    nr_version,  \* self.nr_version
    pos,         \* read_nr_file's cursor
    pc,          \* control point of main / process_file / convert_to_obj
    space,       \* which conversion process_file is in: "Local" or "World"
    result,      \* per space: what convert_to_obj returned
    err,         \* per space: the exception the except clause reported
    obj,         \* per space: the output file this run wrote
    vert_chunk,  \* convert_to_obj's local vert_chunk
    vert_data,   \* argument of parse_vertex_data
    vertices,    \* value returned by parse_vertex_data
    indx_data,   \* argument of parse_index_data
    indices      \* value returned by parse_index_data

vars == <<data, chunks, origin, nr_version, pos, pc, space, result, err, obj,
          vert_chunk, vert_data, vertices, indx_data, indices>>

---------------------------------------------------------------------------
(* Program constants *)

MAGIC == 1346982478
TAG_VERT == 1414677846
TAG_INDX == 1480871497
HEADER_SIZE == 16
CHUNK_HEADER_SIZE == 12

(* Bounds of the model *)

MaxFileChunks == 3
MaxChunks == 8
MaxCount == 3
MaxVertBytes == 52
MaxIndexBytes == 30

Spaces == {"Local", "World"}

---------------------------------------------------------------------------
(* struct / slicing primitives *)

Min(a, b) == IF a < b THEN a ELSE b

\* data[a:b] for 0 <= a: Python clamps the slice to the available bytes
Slice(d, a, b) ==
    IF a >= Min(b, Len(d)) THEN <<>> ELSE SubSeq(d, a + 1, Min(b, Len(d)))

\* struct.unpack('<I', d[off:off+4])[0]; the caller has checked off + 4 <= Len(d)
Dec32(d, off) ==
    d[off + 1] + 256 * d[off + 2] + 65536 * d[off + 3] + 16777216 * d[off + 4]

\* struct.unpack('<fff', b): three floats, each kept as its 4-byte pattern
Unpack_fff(b) == <<SubSeq(b, 1, 4), SubSeq(b, 5, 8), SubSeq(b, 9, 12)>>

---------------------------------------------------------------------------
(* Input files.  Every byte is below 128, so that any four consecutive     *)
(* bytes, aligned or not, decode to a value below 2^31.                    *)

\* struct.pack('<I', n)
Enc32(n) ==
    <<n % 256, (n \div 256) % 256, (n \div 65536) % 256, (n \div 16777216) % 256>>

\* n bytes that differ from their neighbours: byte i is (seed + 3 * i) % 128
Ramp(seed, n) == [i \in 1..n |-> (seed + 3 * i) % 128]

RECURSIVE Concat(_)
Concat(ss) == IF ss = <<>> THEN <<>> ELSE Head(ss) \o Concat(Tail(ss))

RECURSIVE EncAll(_)
EncAll(ns) == IF ns = <<>> THEN <<>> ELSE Enc32(Head(ns)) \o EncAll(Tail(ns))

\* [size:4][tag:4][index:4][payload]
ChunkBytes(size, tag, idx, payload) ==
    Enc32(size) \o Enc32(tag) \o Enc32(idx) \o payload

\* 'TEST', a tag the converter does not interpret
TAG_TEST == Dec32(<<84, 69, 83, 84>>, 0)

VertPayload(count, stride, seed, n) == Enc32(count) \o Enc32(stride) \o Ramp(seed, n)
IndxPayload(count, present, stray) == Enc32(count) \o Enc32(4) \o EncAll(present) \o stray

\* count 2, stride 20: records at payload offsets 8 and 28
VertA == ChunkBytes(12 + 40, TAG_VERT, 0, VertPayload(2, 20, 1, 32))
\* count 3, stride 12, third record cut short
VertB == ChunkBytes(12 + 38, TAG_VERT, 1, VertPayload(3, 12, 40, 30))
\* declared size far beyond the end of the file
VertHuge == ChunkBytes(16777216, TAG_VERT, 0, VertPayload(1, 12, 90, 12))
\* 7 indices: two triangles and one index left over
IndxA == ChunkBytes(12 + 36, TAG_INDX, 0, IndxPayload(7, <<0, 1, 2, 2, 1, 3, 0>>, <<>>))
\* count 6, only 4 indices and 2 stray bytes present
IndxB == ChunkBytes(12 + 26, TAG_INDX, 0, IndxPayload(6, <<0, 2, 1, 5>>, <<9, 9>>))
\* 5 indices: one triangle and two indices left over
IndxC == ChunkBytes(12 + 28, TAG_INDX, 0, IndxPayload(5, <<4, 3, 2, 1, 0>>, <<>>))
\* declared size below the header size
IndxSmall == ChunkBytes(5, TAG_INDX, 0, <<>>)
Other == ChunkBytes(12 + 4, TAG_TEST, 0, <<7, 7, 7, 7>>)
\* declared size 0
ZeroSize == ChunkBytes(0, TAG_TEST, 0, <<>>)
\* 5 bytes, fewer than a chunk header
Pad == <<1, 2, 3, 4, 5>>

ChunkKinds ==
    {VertA, VertB, VertHuge, IndxA, IndxB, IndxC, IndxSmall, Other, ZeroSize, Pad}

ChunkStreams(n) == {Concat(s) : s \in UNION {[1..k -> ChunkKinds] : k \in 0..n}}

GoodHeader == Enc32(MAGIC) \o Enc32(1) \o <<0, 0, 0, 0, 0, 0, 0, 0>>
NewerHeader == Enc32(MAGIC) \o Enc32(5) \o <<0, 0, 0, 0, 0, 0, 0, 0>>
BadHeader == Enc32(MAGIC + 1) \o Enc32(1) \o <<0, 0, 0, 0, 0, 0, 0, 0>>

Files ==
    {GoodHeader \o s : s \in ChunkStreams(MaxFileChunks)}
    \cup {h \o s : h \in {NewerHeader, BadHeader}, s \in ChunkStreams(1)}
    \cup {SubSeq(h, 1, n) : h \in {GoodHeader, BadHeader}, n \in 0..15}

\* payloads handed to parse_vertex_data / parse_index_data on their own
VertPayloads ==
    {VertPayload(c, st, 1, n) : c \in 0..MaxCount, st \in {0, 4, 12, 16, 20},
                                n \in 0..MaxVertBytes}
    \cup {SubSeq(VertPayload(2, 12, 1, 0), 1, n) : n \in 0..7}

IndexPayloads ==
    {Enc32(c) \o Enc32(4) \o Ramp(2, n) : c \in 0..(2 * MaxCount + 1), n \in 0..MaxIndexBytes}
    \cup {SubSeq(Enc32(3) \o Enc32(4), 1, n) : n \in 0..7}

---------------------------------------------------------------------------
(* NR2ObjConverter: pure parts *)

\* line 18-25 of read_nr_file: which exception the header raises, if any
HeaderMissing(d, off) == Len(d) < off + 4

MagicSkipped(d) == TRUE
MagicOK(d) == Dec32(d, 0) = MAGIC

HeaderError(d) ==
    IF HeaderMissing(d, 0) THEN "struct.error"
    ELSE IF ~MagicOK(d) THEN "ValueError: magic"
    ELSE IF HeaderMissing(d, 4) THEN "struct.error"
    ELSE "none"

\* the while loop's condition together with its first-line break
MoreChunks(d, p) == p < Len(d) /\ ~(p + CHUNK_HEADER_SIZE > Len(d))

\* the tuple appended for the chunk header at p
ChunkAt(d, p) ==
    LET raw_size == Dec32(d, p)
    IN  [tag  |-> Dec32(d, p + 4),
         idx  |-> Dec32(d, p + 8),
         pos  |-> p,
         size |-> raw_size,
         data |-> IF raw_size > 12 THEN Slice(d, p + 12, p + raw_size) ELSE <<>>]

NextPosPlusHeader(p, raw_size) == p + raw_size + CHUNK_HEADER_SIZE
NextPos(p, raw_size) == p + raw_size

KeepChunks(cs) == cs
ResetChunks(cs) == <<>>

find_chunks(cs, tag) == SelectSeq(cs, LAMBDA c : c.tag = tag)

AdvanceByPosition(p, vertex_size) == p + 12
VertexAdvance(p, vertex_size) == p + vertex_size

RECURSIVE VertexLoop(_, _, _, _, _, _)
VertexLoop(vd, i, vertex_count, vertex_size, p, acc) ==
    IF i >= vertex_count THEN acc
    ELSE IF p + 12 > Len(vd) THEN acc
    ELSE VertexLoop(vd, i + 1, vertex_count, vertex_size,
                    VertexAdvance(p, vertex_size),
                    Append(acc, Unpack_fff(Slice(vd, p, p + 12))))

parse_vertex_data(vd) ==
    IF Len(vd) < 8 THEN <<>>
    ELSE VertexLoop(vd, 0, Dec32(vd, 0), Dec32(vd, 4), 8, <<>>)

RECURSIVE IndexLoop(_, _, _, _, _)
IndexLoop(xd, i, index_count, p, acc) ==
    IF i >= index_count THEN acc
    ELSE IF p + 4 > Len(xd) THEN acc
    ELSE IndexLoop(xd, i + 1, index_count, p + 4, Append(acc, Dec32(xd, p)))

parse_index_data(xd) ==
    IF Len(xd) < 8 THEN <<>>
    ELSE IndexLoop(xd, 0, Dec32(xd, 0), 8, <<>>)

NoGeometryVertOnly(vert_chunks, indx_chunks) == vert_chunks = <<>>
NoGeometry(vert_chunks, indx_chunks) == vert_chunks = <<>> \/ indx_chunks = <<>>

WorldWhenAsked(use_world_space, n) == IF use_world_space THEN 1 ELSE 0
vert_chunk_idx(use_world_space, n) == IF use_world_space /\ n > 1 THEN 1 ELSE 0

ObjIndexZeroBased(i) == i
ObjIndex(i) == i + 1

\* for i in range(0, len(indices), 3): if i + 2 < len(indices): write a face
RECURSIVE FaceLoop(_, _, _)
FaceLoop(ind, i, acc) ==
    IF i >= Len(ind) THEN acc
    ELSE FaceLoop(ind, i + 3,
                  IF i + 2 < Len(ind)
                  THEN Append(acc, <<ObjIndex(ind[i + 1]), ObjIndex(ind[i + 2]),
                                     ObjIndex(ind[i + 3])>>)
                  ELSE acc)

NoFile == [written |-> FALSE, space |-> "", v |-> <<>>, f |-> <<>>]
NoChunk == [tag |-> 0, idx |-> 0, pos |-> 0, size |-> 0, data |-> <<>>]

\* lines 115-150: what the body of the try block does once read_nr_file returned
Convert(cs, use_world_space) ==
    LET vert_chunks == find_chunks(cs, TAG_VERT)
        indx_chunks == find_chunks(cs, TAG_INDX)
        vi == vert_chunk_idx(use_world_space, Len(vert_chunks))
    IN  IF NoGeometry(vert_chunks, indx_chunks)
        THEN [err |-> "ValueError: no geometry", vc |-> NoChunk, xd |-> <<>>]
        ELSE IF vi + 1 > Len(vert_chunks) \/ indx_chunks = <<>>
        THEN [err |-> "IndexError", vc |-> NoChunk, xd |-> <<>>]
        ELSE [err |-> "none", vc |-> vert_chunks[vi + 1], xd |-> indx_chunks[1].data]

---------------------------------------------------------------------------
(* State machine: main -> process_file -> convert_to_obj (Local, World) *)

Fresh ==
    /\ data = <<>>
    /\ chunks = <<>>
    /\ origin = <<>>
    /\ nr_version = 0
    /\ pos = 0
    /\ pc = "main"
    /\ space = "Local"
    /\ result = [s \in Spaces |-> "pending"]
    /\ err = [s \in Spaces |-> "none"]
    /\ obj = [s \in Spaces |-> NoFile]
    /\ vert_chunk = NoChunk
    /\ vert_data = <<>>
    /\ vertices = <<>>
    /\ indx_data = <<>>
    /\ indices = <<>>

Init == Fresh

\* every variable back at its initial value
Discard ==
    /\ data' = <<>>
    /\ chunks' = <<>>
    /\ origin' = <<>>
    /\ nr_version' = 0
    /\ pos' = 0
    /\ pc' = "main"
    /\ space' = "Local"
    /\ result' = [s \in Spaces |-> "pending"]
    /\ err' = [s \in Spaces |-> "none"]
    /\ obj' = [s \in Spaces |-> NoFile]
    /\ vert_chunk' = NoChunk
    /\ vert_data' = <<>>
    /\ vertices' = <<>>
    /\ indx_data' = <<>>
    /\ indices' = <<>>

\* main's loop calls process_file(nr_file); process_file builds a new converter
\* and starts the Local-space conversion
ProcessFile ==
    /\ pc = "main"
    /\ \E f \in Files : data' = f
    /\ chunks' = <<>>
    /\ origin' = <<>>
    /\ nr_version' = 0
    /\ pos' = 0
    /\ space' = "Local"
    /\ result' = [s \in Spaces |-> "pending"]
    /\ err' = [s \in Spaces |-> "none"]
    /\ obj' = [s \in Spaces |-> NoFile]
    /\ vert_chunk' = NoChunk
    /\ vert_data' = <<>>
    /\ vertices' = <<>>
    /\ indx_data' = <<>>
    /\ indices' = <<>>
    /\ pc' = "convert"

\* convert_to_obj up to the first test of read_nr_file's while loop: reset the
\* chunk list, read the file, check magic and version; an exception is caught
\* by the except clause, which returns False
ConvertBegin ==
    /\ pc = "convert"
    /\ chunks' = ResetChunks(chunks)
    /\ origin' = ResetChunks(origin)
    /\ vert_chunk' = NoChunk
    /\ vert_data' = <<>>
    /\ vertices' = <<>>
    /\ indx_data' = <<>>
    /\ indices' = <<>>
    /\ IF HeaderError(data) # "none"
       THEN /\ err' = [err EXCEPT ![space] = HeaderError(data)]
            /\ result' = [result EXCEPT ![space] = "False"]
            /\ pc' = "returned"
            /\ UNCHANGED <<nr_version, pos>>
       ELSE /\ nr_version' = Dec32(data, 4)
            /\ pos' = HEADER_SIZE
            /\ pc' = "scan"
            /\ UNCHANGED <<err, result>>
    /\ UNCHANGED <<data, space, obj>>

\* one iteration of read_nr_file's while loop.  The list the loop appends to is
\* followed up to MaxChunks elements: a loop that no longer moves its cursor
\* changes nothing but the length of the list, and is not followed further
ScanStep ==
    /\ pc = "scan"
    /\ MoreChunks(data, pos)
    /\ Len(chunks) < MaxChunks
    /\ chunks' = Append(chunks, ChunkAt(data, pos))
    /\ origin' = Append(origin, space)
    /\ pos' = NextPos(pos, Dec32(data, pos))
    /\ UNCHANGED <<data, nr_version, pc, space, result, err, obj,
                   vert_chunk, vert_data, vertices, indx_data, indices>>

\* the loop ends, read_nr_file returns, and convert_to_obj runs to its return
ConvertFinish ==
    /\ pc = "scan"
    /\ ~MoreChunks(data, pos)
    /\ LET c == Convert(chunks, space = "World")
       IN  IF c.err # "none"
           THEN /\ err' = [err EXCEPT ![space] = c.err]
                /\ result' = [result EXCEPT ![space] = "False"]
                /\ UNCHANGED <<obj, vert_chunk, vert_data, vertices, indx_data, indices>>
           ELSE /\ vert_chunk' = c.vc
                /\ vert_data' = c.vc.data
                /\ vertices' = parse_vertex_data(c.vc.data)
                /\ indx_data' = c.xd
                /\ indices' = parse_index_data(c.xd)
                /\ obj' = [obj EXCEPT ![space] =
                              [written |-> TRUE, space |-> space,
                               v |-> parse_vertex_data(c.vc.data),
                               f |-> FaceLoop(parse_index_data(c.xd), 0, <<>>)]]
                /\ result' = [result EXCEPT ![space] = "True"]
                /\ UNCHANGED err
    /\ pc' = "returned"
    /\ UNCHANGED <<data, chunks, origin, nr_version, pos, space>>

\* process_file reports the Local outcome and calls convert_to_obj for World
StartWorld ==
    /\ pc = "returned"
    /\ space = "Local"
    /\ space' = "World"
    /\ pc' = "convert"
    /\ UNCHANGED <<data, chunks, origin, nr_version, pos, result, err, obj,
                   vert_chunk, vert_data, vertices, indx_data, indices>>

\* process_file reports the World outcome and returns to main; the converter and
\* the locals of the call go out of scope
FileDone ==
    /\ pc = "returned"
    /\ space = "World"
    /\ Discard

Next == ProcessFile \/ ConvertBegin \/ ScanStep \/ ConvertFinish \/ StartWorld \/ FileDone

Spec == Init /\ [][Next]_vars

\* process_file is straight-line code: a step that can be taken is taken
FairSpec == Spec /\ WF_vars(Next)

---------------------------------------------------------------------------
(* The decoders called on their own *)

InitDecode == Init

CallParseVertexData ==
    /\ pc = "main"
    /\ \E p \in VertPayloads :
          /\ vert_data' = p
          /\ vertices' = parse_vertex_data(p)
    /\ pc' = "decoded"
    /\ UNCHANGED <<data, chunks, origin, nr_version, pos, space, result, err, obj,
                   vert_chunk, indx_data, indices>>

CallParseIndexData ==
    /\ pc = "main"
    /\ \E p \in IndexPayloads :
          /\ indx_data' = p
          /\ indices' = parse_index_data(p)
    /\ pc' = "decoded"
    /\ UNCHANGED <<data, chunks, origin, nr_version, pos, space, result, err, obj,
                   vert_chunk, vert_data, vertices>>

\* the caller drops the argument and the returned list
DecodeReturn ==
    /\ pc = "decoded"
    /\ Discard

NextDecode == CallParseVertexData \/ CallParseIndexData \/ DecodeReturn

SpecDecode == InitDecode /\ [][NextDecode]_vars

---------------------------------------------------------------------------
(* Properties *)

Outcomes == {"True", "False"}

\* read_nr_file returned normally in the current conversion, which has ended
ReadCompleted ==
    pc = "returned" /\ err[space] \notin {"struct.error", "ValueError: magic"}

Tagged(tag) == {i \in DOMAIN chunks : chunks[i].tag = tag}

\* position in the chunk list of the k-th chunk (k >= 1) carrying the tag
KthTagged(tag, k) ==
    CHOOSE i \in Tagged(tag) : Cardinality({j \in Tagged(tag) : j <= i}) = k

RECURSIVE SumSizes(_)
SumSizes(cs) == IF cs = <<>> THEN 0 ELSE Head(cs).size + SumSizes(Tail(cs))

\* the bytes from p on are whole chunks, each declaring at least its header,
\* the last one ending at the end of the file
RECURSIVE WholeChunksFrom(_, _)
WholeChunksFrom(d, p) ==
    \/ p = Len(d)
    \/ /\ p + 12 <= Len(d)
       /\ Dec32(d, p) >= 12
       /\ p + Dec32(d, p) <= Len(d)
       /\ WholeChunksFrom(d, p + Dec32(d, p))

ValidFile(d) == Len(d) >= 16 /\ Dec32(d, 0) = MAGIC /\ WholeChunksFrom(d, 16)

\* C1: every iteration of the chunk-scanning loop moves the cursor forward (so
\* the loop ends on a finite file); in particular a header whose declared size
\* is 0 is not read again at the same position.
C1_ScanAdvances == [][(pc = "scan" /\ pc' = "scan") => pos' > pos]_vars

\* C2: once process_file has started on a file, both the Local and the World
\* conversion are eventually attempted and both end in a reported outcome.
C2_BothOutcomesReported ==
    (pc = "convert" /\ space = "Local")
        ~> (pc = "returned" /\ space = "World"
            /\ result["Local"] \in Outcomes /\ result["World"] \in Outcomes)

\* C3: while a conversion scans and searches its chunk list, every chunk in the
\* list was appended by this conversion, none by an earlier one.
C3_OnlyOwnChunks ==
    pc \in {"scan", "returned"} =>
        /\ Len(origin) = Len(chunks)
        /\ \A i \in DOMAIN origin : origin[i] = space

C3_Witness ==
    /\ pc = "returned" /\ space = "World"
    /\ result["Local"] = "True"
    /\ Len(chunks) >= 2

\* C4: a file of fewer than 16 bytes makes read_nr_file raise, so the
\* conversion ends with the error reported and the result False.
C4_ShortFileRejected ==
    (pc \in {"scan", "returned"} /\ Len(data) < 16) =>
        /\ pc = "returned"
        /\ err[space] \in {"struct.error", "ValueError: magic"}
        /\ result[space] = "False"

\* C5: for a file whose first 4 bytes are not the magic, no chunk is ever
\* scanned or collected, no output file is written, and a conversion that has
\* ended reported the magic error and returned False.
C5_BadMagicRejected ==
    (Len(data) >= 4 /\ Dec32(data, 0) # MAGIC) =>
        /\ pc # "scan"
        /\ chunks = <<>>
        /\ \A s \in Spaces : ~obj[s].written
        /\ pc = "returned" =>
              /\ result[space] = "False"
              /\ err[space] = "ValueError: magic"

C5_Witness ==
    /\ Len(data) > 28 /\ Dec32(data, 0) # MAGIC
    /\ pc = "returned" /\ space = "World"

\* C6: when the parsed chunk list lacks a vertex chunk or lacks an index chunk,
\* the conversion returns False with the no-geometry error and its output file
\* is not written.
C6_NoGeometryFails ==
    (ReadCompleted /\ (Tagged(TAG_VERT) = {} \/ Tagged(TAG_INDX) = {})) =>
        /\ result[space] = "False"
        /\ err[space] = "ValueError: no geometry"
        /\ ~obj[space].written

C6_Witness ==
    /\ ReadCompleted
    /\ Tagged(TAG_VERT) # {} /\ Tagged(TAG_INDX) = {}
    /\ result[space] = "False"

\* C7: the first chunk starts at offset 16, each later chunk starts at the
\* previous chunk's offset + declared size, each chunk's size is the one its
\* header declares, and for a valid file the sizes add up to fileLength - 16.
C7_ChunksPartitionFile ==
    pc \in {"scan", "returned"} =>
        /\ chunks # <<>> => chunks[1].pos = 16
        /\ \A i \in DOMAIN chunks :
              /\ chunks[i].size = Dec32(data, chunks[i].pos)
              /\ i > 1 => chunks[i].pos = chunks[i - 1].pos + chunks[i - 1].size
        /\ (ReadCompleted /\ ValidFile(data)) => SumSizes(chunks) = Len(data) - 16

C7_Witness ==
    /\ ReadCompleted /\ ValidFile(data)
    /\ Len(chunks) = 3
    /\ SumSizes(chunks) = Len(data) - 16

\* the vertices the claim describes: vertex i comes from the 12 bytes at payload
\* offset 8 + i * stride, for the i below count up to the first one whose 12
\* bytes would end beyond the payload
ExpectedVertices(payload) ==
    IF Len(payload) < 8 THEN <<>>
    ELSE LET count  == Dec32(payload, 0)
             stride == Dec32(payload, 4)
             Fits(i) == 8 + i * stride + 12 <= Len(payload)
             n == CHOOSE m \in 0..count :
                     /\ \A i \in 0..(m - 1) : Fits(i)
                     /\ m = count \/ ~Fits(m)
         IN  [k \in 1..n |->
                 <<SubSeq(payload, 8 + (k - 1) * stride + 1, 8 + (k - 1) * stride + 4),
                   SubSeq(payload, 8 + (k - 1) * stride + 5, 8 + (k - 1) * stride + 8),
                   SubSeq(payload, 8 + (k - 1) * stride + 9, 8 + (k - 1) * stride + 12)>>]

\* C8: parse_vertex_data returns exactly the vertices read at stride-spaced
\* offsets, cut at the first record that does not fit; nothing for a payload
\* under 8 bytes or a count of 0.
C8_StrideRespected == vertices = ExpectedVertices(vert_data)

C8_Witness ==
    /\ pc = "decoded"
    /\ Len(vert_data) = 40
    /\ Dec32(vert_data, 0) = 2 /\ Dec32(vert_data, 4) = 20
    /\ Len(vertices) = 2
    /\ vertices[2][1] = SubSeq(vert_data, 29, 32)

\* C9: with at least one vertex chunk and one index chunk, the conversion
\* succeeds and uses the second vertex chunk of the list exactly when World
\* space is asked for and two vertex chunks exist, else the first.
C9_SelectVertexChunk ==
    (ReadCompleted /\ Tagged(TAG_VERT) # {} /\ Tagged(TAG_INDX) # {}) =>
        /\ result[space] = "True"
        /\ vert_chunk =
              chunks[KthTagged(TAG_VERT,
                               IF space = "World" /\ Cardinality(Tagged(TAG_VERT)) >= 2
                               THEN 2 ELSE 1)]

C9_Witness ==
    /\ ReadCompleted /\ space = "World"
    /\ Cardinality(Tagged(TAG_VERT)) = 1 /\ Tagged(TAG_INDX) # {}
    /\ result[space] = "True"
    /\ vert_chunk = chunks[KthTagged(TAG_VERT, 1)]

\* C10: a successful conversion writes floor(n / 3) faces for n decoded
\* indices, face k being indices 3k, 3k+1, 3k+2 (0-based), each plus 1.
C10_FacesAreTriples ==
    (pc = "returned" /\ result[space] = "True") =>
        obj[space].f =
            [k \in 1..(Len(indices) \div 3) |->
                <<indices[3 * k - 2] + 1, indices[3 * k - 1] + 1, indices[3 * k] + 1>>]

C10_Witness ==
    /\ pc = "returned" /\ result[space] = "True"
    /\ Len(indices) = 7
    /\ obj[space].f = <<<<1, 2, 3>>, <<3, 2, 4>>>>

====
